---- MODULE Spec2Model ----
(***************************************************************************)
(* A model of tdryer/editor (src/editor/__main__.py): the Buffer class and *)
(* the EditorGUI main loop with its scrolling and text-drawing code.       *)
(*                                                                         *)
(* Strings are sequences of character codes (0..255), rows and columns     *)
(* are 0-based as in the source; sequences are 1-based, so line number n   *)
(* of the buffer is lines[n + 1].                                          *)
(*                                                                         *)
(* Six specifications share the variables:                                 *)
(*   SpecBuffer    the Buffer class driven through its public interface    *)
(*                 (the way test_editor.py drives it);                     *)
(*   SpecSnapshot  a list returned by Buffer.get_lines, kept while the     *)
(*                 list and the buffer change;                             *)
(*   SpecWrap      _get_wrapped_lines and _convert_nonprinting on one line;*)
(*   SpecScroll    EditorGUI._scroll_to called on arbitrary buffers;       *)
(*   Spec          EditorGUI.main: draw a frame, read a key, handle it,    *)
(*                 clip the cursor, repeat;                                *)
(*   SpecKeys      the same loop with the key kept and the frame left out: *)
(*                 what each key does to the buffer, cursor and mode.      *)
(***************************************************************************)
EXTENDS Integers, Sequences, FiniteSets, TLC

VARIABLES
    lines,       \* Buffer._lines
    row,         \* EditorGUI._row
    col,         \* EditorGUI._col
    scroll_top,  \* EditorGUI._scroll_top
    mode,        \* EditorGUI._mode
    will_exit,   \* EditorGUI._will_exit
    pc,          \* position in EditorGUI.main / which driver is running
    err,         \* the exception that ended the program, "" if none
    frame,       \* what the last _draw_text did (NoFrame when none is current)
    call,        \* the last call made on the Buffer by SpecBuffer's driver
    scroll       \* the last _scroll_to call made by SpecScroll's driver

vars == <<lines, row, col, scroll_top, mode, will_exit, pc, err, frame, call, scroll>>

-----------------------------------------------------------------------------
(* Bounds of the model *)

\* a Buffer is not edited further once it holds more lines than this
MaxLines == 2
\* nor once it holds more characters than this (newlines not counted)
MaxChars == 3
\* length of the texts SpecBuffer passes to Buffer()
MaxInitLen == 3
\* the editor takes no key that makes the buffer hold more lines than this
MaxEditLines == 3
\* or more characters than this (newlines not counted)
MaxEditChars == 3
\* number of lines of the buffers SpecScroll starts from
MaxScrollLines == 4

-----------------------------------------------------------------------------
(* Character codes the source names *)

NL == 10
TAB == 9
ESC == 27
BACKSPACE == 127

Min(a, b) == IF a < b THEN a ELSE b
Max(a, b) == IF a > b THEN a ELSE b

\* Python's s[:n] and s[n:] for n >= 0 (a slice bound past the end is clipped)
Prefix(s, n) == SubSeq(s, 1, Min(n, Len(s)))
Suffix(s, n) == SubSeq(s, Min(n, Len(s)) + 1, Len(s))

\* Python's text.split('\n'): always at least one piece
RECURSIVE SplitFrom(_, _, _)
SplitFrom(text, i, cur) ==
    IF i > Len(text) THEN <<cur>>
    ELSE IF text[i] = NL THEN <<cur>> \o SplitFrom(text, i + 1, <<>>)
    ELSE SplitFrom(text, i + 1, Append(cur, text[i]))

SplitDropsEmpty(text) ==
    SelectSeq(SplitFrom(text, 1, <<>>), LAMBDA p : p # <<>>)

split(text) == SplitFrom(text, 1, <<>>)

\* Python's ''.join(ls)
RECURSIVE Concat(_)
Concat(ls) == IF ls = <<>> THEN <<>> ELSE Head(ls) \o Concat(Tail(ls))

\* Python's '\n'.join(ls)
RECURSIVE join(_)
join(ls) ==
    IF Len(ls) = 0 THEN <<>>
    ELSE IF Len(ls) = 1 THEN ls[1]
    ELSE ls[1] \o <<NL>> \o join(Tail(ls))

-----------------------------------------------------------------------------
(* class Buffer *)

\* Buffer.__init__ with text.splitlines() for text.split('\n'): no line
\* after a final newline
BufferInit_Splitlines(text) ==
    LET parts == split(text)
    IN  IF parts[Len(parts)] = <<>> THEN SubSeq(parts, 1, Len(parts) - 1)
        ELSE parts

\* Buffer.__init__
BufferInit(text) == split(text)

\* Buffer.get_lines: a copy of the list (sequences are values: a copy is equal)
get_lines(ls) == ls

\* The list object Buffer.get_lines returns.  A Python list has an identity:
\* obj = "copy" is a new list holding items, obj = "_lines" is the list the
\* buffer itself holds (lines), whose items are read from the buffer.
\* get_lines returning self._lines itself:
get_lines_return_Alias(ls) == [obj |-> "_lines", items |-> ls]

\* return list(self._lines)
get_lines_return(ls) == [obj |-> "copy", items |-> ls]

\* the items read through a reference to a list, buf being self._lines
ListItems(ref, buf) == IF ref.obj = "_lines" THEN buf ELSE ref.items

\* Buffer._check_point: TRUE when it returns, FALSE when it raises ValueError
check_point_NoUpper(ls, r, c) ==
    /\ ~(r < 0 \/ r > Len(ls) - 1)
    /\ ~(c < 0 \/ c > Len(ls[r + 1]) + 1)

check_point(ls, r, c) ==
    /\ ~(r < 0 \/ r > Len(ls) - 1)
    /\ ~(c < 0 \/ c > Len(ls[r + 1]))

\* the slice assignment  _lines[row1:row2+1] = parts  (an empty slice, when
\* row2 + 1 <= row1, inserts at row1)
AssignSlice_InsertOnly(ls, r1, r2, parts) ==
    SubSeq(ls, 1, r1) \o parts \o SubSeq(ls, r1 + 1, Len(ls))

AssignSlice(ls, r1, r2, parts) ==
    SubSeq(ls, 1, r1) \o parts \o SubSeq(ls, Max(r1, r2 + 1) + 1, Len(ls))

\* Buffer.set_text: the new line list, or the old one and raised when a point
\* is invalid
set_text_KeepsEndLine(ls, r1, c1, r2, c2, text) ==
    IF ~check_point(ls, r1, c1) \/ ~check_point(ls, r2, c2)
    THEN [raised |-> TRUE, lines |-> ls]
    ELSE LET line == Prefix(ls[r1 + 1], c1) \o text \o Suffix(ls[r2 + 1], c2)
         IN  [raised |-> FALSE, lines |-> AssignSlice(ls, r1, r2 - 1, split(line))]

set_text_MutatesFirst(ls, r1, c1, r2, c2, text) ==
    IF ~check_point(ls, r1, c1) THEN [raised |-> TRUE, lines |-> ls]
    ELSE IF ~check_point(ls, r2, c2)
    THEN [raised |-> TRUE,
          lines |-> AssignSlice(ls, r1, r1, <<Prefix(ls[r1 + 1], c1)>>)]
    ELSE LET line == Prefix(ls[r1 + 1], c1) \o text \o Suffix(ls[r2 + 1], c2)
         IN  [raised |-> FALSE, lines |-> AssignSlice(ls, r1, r2, split(line))]

set_text(ls, r1, c1, r2, c2, text) ==
    IF ~check_point(ls, r1, c1) \/ ~check_point(ls, r2, c2)
    THEN [raised |-> TRUE, lines |-> ls]
    ELSE LET line == Prefix(ls[r1 + 1], c1) \o text \o Suffix(ls[r2 + 1], c2)
         IN  [raised |-> FALSE, lines |-> AssignSlice(ls, r1, r2, split(line))]

-----------------------------------------------------------------------------
(* class EditorGUI: wrapping and scrolling *)

\* hex(i)[2:], as character codes: '0'..'9', 'a'..'f'
HexChar(d) == IF d < 10 THEN 48 + d ELSE 87 + d

RECURSIVE HexDigits(_)
HexDigits(i) ==
    IF i < 16 THEN <<HexChar(i)>>
    ELSE HexDigits(i \div 16) \o <<HexChar(i % 16)>>

\* the loop body without its first branch: a tab takes the hex branch
ConvertChar_TabAsHex(c) ==
    IF c < 32 \/ c > 126 THEN <<60>> \o HexDigits(c) \o <<62>>
    ELSE <<c>>

\* one iteration of the loop of EditorGUI._convert_nonprinting:
\* '->  ' for a tab, '<' hex '>' for the other codes outside 32..126
ConvertChar(c) ==
    IF c = TAB THEN <<45, 62, 32, 32>>
    ELSE IF c < 32 \/ c > 126 THEN <<60>> \o HexDigits(c) \o <<62>>
    ELSE <<c>>

\* EditorGUI._convert_nonprinting
RECURSIVE convert_nonprinting(_)
convert_nonprinting(text) ==
    IF text = <<>> THEN <<>>
    ELSE ConvertChar(Head(text)) \o convert_nonprinting(Tail(text))

\* wrap_text without its first branch: no wrapped line for an empty text
wrap_text_NoEmptyCase(text, width) ==
    [k \in 1..((Len(text) + width - 1) \div width) |->
        SubSeq(text, (k - 1) * width + 1,
               IF k * width < Len(text) THEN k * width ELSE Len(text))]

\* wrap_text inside EditorGUI._get_wrapped_lines, for width >= 1
wrap_text(text, width) ==
    IF text = <<>> THEN << <<>> >>
    ELSE [k \in 1..((Len(text) + width - 1) \div width) |->
             SubSeq(text, (k - 1) * width + 1, Min(k * width, Len(text)))]

\* EditorGUI._get_wrapped_lines
get_wrapped_lines_Raw(ls, line_num, width, convert) ==
    wrap_text(get_lines(ls)[line_num + 1], width)

get_wrapped_lines(ls, line_num, width, convert) ==
    LET line == get_lines(ls)[line_num + 1]
    IN  wrap_text(IF convert THEN convert_nonprinting(line) ELSE line, width)

\* EditorGUI._get_num_wrapped_lines
get_num_wrapped_lines(ls, line_num, width) ==
    Len(get_wrapped_lines(ls, line_num, width, TRUE))

\* num_rows in verify: the display rows of lines top..bottom
RECURSIVE NumRows(_, _, _, _)
NumRows(ls, top, bottom, width) ==
    IF top > bottom THEN 0
    ELSE get_num_wrapped_lines(ls, top, width) + NumRows(ls, top + 1, bottom, width)

\* verify inside EditorGUI._scroll_bottom_to_top: TRUE when both assertions hold
verify(ls, top, bottom, width, height) ==
    /\ top <= bottom
    /\ NumRows(ls, top, bottom, width) <= height

\* the while loop of EditorGUI._scroll_bottom_to_top
RECURSIVE ScrollLoop_StopsEarly(_, _, _, _, _, _)
ScrollLoop_StopsEarly(ls, width, height, top, next_top, distance) ==
    IF next_top >= 0 /\ distance < height
    THEN ScrollLoop_StopsEarly(ls, width, height, next_top, next_top - 1,
             distance + get_num_wrapped_lines(ls, Max(0, next_top - 1), width))
    ELSE top

\* the loop with distance += ... ahead of next_top -= 1: the rows of the line
\* just made top are added, not those of the line above it
RECURSIVE ScrollLoop_CountsTopAgain(_, _, _, _, _, _)
ScrollLoop_CountsTopAgain(ls, width, height, top, next_top, distance) ==
    IF next_top >= 0 /\ distance <= height
    THEN ScrollLoop_CountsTopAgain(ls, width, height, next_top, next_top - 1,
             distance + get_num_wrapped_lines(ls, Max(0, next_top), width))
    ELSE top

RECURSIVE ScrollLoop(_, _, _, _, _, _)
ScrollLoop(ls, width, height, top, next_top, distance) ==
    IF next_top >= 0 /\ distance <= height
    THEN ScrollLoop(ls, width, height, next_top, next_top - 1,
             distance + get_num_wrapped_lines(ls, Max(0, next_top - 1), width))
    ELSE top

\* EditorGUI._scroll_bottom_to_top: the value returned, or ok = FALSE when an
\* assertion of verify fails (AssertionError)
scroll_bottom_to_top(ls, bottom, width, height) ==
    LET top == ScrollLoop(ls, width, height, bottom, bottom,
                          get_num_wrapped_lines(ls, bottom, width))
    IN  [ok |-> verify(ls, top, bottom, width, height), top |-> top]

\* _scroll_to without its first branch: the view never scrolls up
ScrollTopFor_NoScrollUp(st, line_num, lowest_top) ==
    IF st < lowest_top THEN lowest_top ELSE st

\* the if / elif of EditorGUI._scroll_to: the new _scroll_top
ScrollTopFor(st, line_num, lowest_top) ==
    IF line_num < st THEN line_num
    ELSE IF st < lowest_top THEN lowest_top
    ELSE st

\* EditorGUI._scroll_to: the new _scroll_top, or ok = FALSE and the old one
\* when _scroll_bottom_to_top raises
scroll_to(ls, st, line_num, width, row_height) ==
    LET lowest == scroll_bottom_to_top(ls, line_num, width, row_height)
    IN  [ok |-> lowest.ok,
         lowest_top |-> lowest.top,
         scroll_top |-> IF lowest.ok THEN ScrollTopFor(st, line_num, lowest.top)
                        ELSE st]

-----------------------------------------------------------------------------
(* class EditorGUI: drawing the text area *)

\* len(str(n)) for n >= 0
RECURSIVE NumDigits(_)
NumDigits(n) == IF n < 10 THEN 1 ELSE 1 + NumDigits(n \div 10)

\* gutter_width in EditorGUI._draw_text
GutterWidth(highest_line_num) == Max(3, NumDigits(highest_line_num)) + 1

\* cursor_y and cursor_x before the loop of _draw_text sets them
None == -1

\* the rows painted for one line: one addstr pair per wrapped line
PaintLine(wrapped_lines, line_num, cur_y) ==
    [n \in 1..Len(wrapped_lines) |->
        [y |-> cur_y + n - 1, kind |-> "text", line_num |-> line_num,
         n |-> n - 1, text |-> wrapped_lines[n]]]

\* real_col in _draw_text: the cells the text before the cursor takes
RealCol_RawColumn(ls, line_num, line_width, c) ==
    Len(Prefix(ls[line_num + 1], c))

RealCol(ls, line_num, line_width, c) ==
    LET lines_ == get_wrapped_lines(ls, line_num, line_width, FALSE)
    IN  Len(convert_nonprinting(Prefix(Concat(lines_), c)))

\* the loop without its second break: a line is painted although its wrapped
\* lines do not fit in the rows that remain
RECURSIVE DrawLines_NoFitCheck(_, _, _, _, _, _, _, _, _)
DrawLines_NoFitCheck(ls, r, c, left, top, height, line_width, line_num, d) ==
    IF line_num >= Len(ls) THEN d
    ELSE LET num_remaining_rows == top + height - d.cur_y
             wrapped_lines == get_wrapped_lines(ls, line_num, line_width, TRUE)
             gutter_width == GutterWidth(Len(ls))
             real_col == RealCol(ls, line_num, line_width, c)
         IN  IF num_remaining_rows = 0 THEN d
             ELSE DrawLines_NoFitCheck(ls, r, c, left, top, height, line_width,
                     line_num + 1,
                     [cur_y |-> d.cur_y + Len(wrapped_lines),
                      cursor_y |-> IF line_num = r
                                   THEN d.cur_y + (real_col \div line_width)
                                   ELSE d.cursor_y,
                      cursor_x |-> IF line_num = r
                                   THEN left + gutter_width + (real_col % line_width)
                                   ELSE d.cursor_x,
                      trailing_char |-> d.trailing_char,
                      painted |-> d.painted
                                  \o PaintLine(wrapped_lines, line_num, d.cur_y)])

\* the loop with a second break that leaves trailing_char as it is
RECURSIVE DrawLines_NoTruncationMark(_, _, _, _, _, _, _, _, _)
DrawLines_NoTruncationMark(ls, r, c, left, top, height, line_width, line_num, d) ==
    IF line_num >= Len(ls) THEN d
    ELSE LET num_remaining_rows == top + height - d.cur_y
             wrapped_lines == get_wrapped_lines(ls, line_num, line_width, TRUE)
             gutter_width == GutterWidth(Len(ls))
             real_col == RealCol(ls, line_num, line_width, c)
         IN  IF num_remaining_rows = 0 THEN d
             ELSE IF Len(wrapped_lines) > num_remaining_rows THEN d
             ELSE DrawLines_NoTruncationMark(ls, r, c, left, top, height,
                     line_width, line_num + 1,
                     [cur_y |-> d.cur_y + Len(wrapped_lines),
                      cursor_y |-> IF line_num = r
                                   THEN d.cur_y + (real_col \div line_width)
                                   ELSE d.cursor_y,
                      cursor_x |-> IF line_num = r
                                   THEN left + gutter_width + (real_col % line_width)
                                   ELSE d.cursor_x,
                      trailing_char |-> d.trailing_char,
                      painted |-> d.painted
                                  \o PaintLine(wrapped_lines, line_num, d.cur_y)])

\* the for loop over line_nums in EditorGUI._draw_text, from line_num on;
\* d holds cur_y, cursor_y, cursor_x, trailing_char and the rows painted
RECURSIVE DrawLines(_, _, _, _, _, _, _, _, _)
DrawLines(ls, r, c, left, top, height, line_width, line_num, d) ==
    IF line_num >= Len(ls) THEN d
    ELSE LET num_remaining_rows == top + height - d.cur_y
             wrapped_lines == get_wrapped_lines(ls, line_num, line_width, TRUE)
             gutter_width == GutterWidth(Len(ls))
             real_col == RealCol(ls, line_num, line_width, c)
         IN  IF num_remaining_rows = 0 THEN d
             ELSE IF Len(wrapped_lines) > num_remaining_rows
             THEN [d EXCEPT !.trailing_char = "@"]
             ELSE DrawLines(ls, r, c, left, top, height, line_width, line_num + 1,
                     [cur_y |-> d.cur_y + Len(wrapped_lines),
                      cursor_y |-> IF line_num = r
                                   THEN d.cur_y + (real_col \div line_width)
                                   ELSE d.cursor_y,
                      cursor_x |-> IF line_num = r
                                   THEN left + gutter_width + (real_col % line_width)
                                   ELSE d.cursor_x,
                      trailing_char |-> d.trailing_char,
                      painted |-> d.painted
                                  \o PaintLine(wrapped_lines, line_num, d.cur_y)])

\* the rows padded after the loop ("draw empty lines")
PaintEmpty(cur_y, top, height, trailing_char) ==
    [i \in 1..(top + height - cur_y) |->
        [y |-> cur_y + i - 1, kind |-> "empty", line_num |-> None,
         n |-> None, text |-> trailing_char]]

\* EditorGUI._draw_text(left, top, width, height) with the cursor at (r, c)
\* and _scroll_top = st: what the frame holds.  state is "drawn" when the
\* method returns and "failed" when an assertion fails: in _scroll_to -
\* nothing is painted then - or at the end, for a cursor left at None.
draw_text(ls, r, c, st, left, top, width, height) ==
    LET highest_line_num == Len(get_lines(ls))
        gutter_width == GutterWidth(highest_line_num)
        line_width == width - gutter_width
        sc == scroll_to(ls, st, r, line_width, height)
        d == DrawLines(ls, r, c, left, top, height, line_width, sc.scroll_top,
                 [cur_y |-> top, cursor_y |-> None, cursor_x |-> None,
                  trailing_char |-> "~", painted |-> <<>>])
        geometry == [left |-> left, top |-> top, width |-> width,
                     height |-> height, gutter_width |-> gutter_width,
                     line_width |-> line_width, before |-> st,
                     lowest_top |-> sc.lowest_top,
                     scroll_top |-> sc.scroll_top]
    IN  IF ~sc.ok
        THEN geometry @@ [state |-> "failed", assertion |-> "verify",
                          cursor_y |-> None, cursor_x |-> None,
                          trailing_char |-> "~", painted |-> <<>>]
        ELSE geometry @@
             [state |-> IF d.cursor_x # None /\ d.cursor_y # None
                        THEN "drawn" ELSE "failed",
              assertion |-> IF d.cursor_x # None /\ d.cursor_y # None
                            THEN "" ELSE "cursor",
              cursor_y |-> d.cursor_y, cursor_x |-> d.cursor_x,
              trailing_char |-> d.trailing_char,
              painted |-> d.painted
                          \o PaintEmpty(d.cur_y, top, height, d.trailing_char)]

-----------------------------------------------------------------------------
(* class EditorGUI: keypresses.  g holds _buf, _row, _col, _scroll_top,      *)
(* _mode and _will_exit; raised is set when Buffer.set_text raises           *)
(* ValueError, which nothing catches.  _message only feeds the status line   *)
(* and is left out.                                                          *)

\* the handler's fields after a set_text whose result is lost
Edited_KeepsBuffer(g, res) == [g EXCEPT !.raised = res.raised]

Edited(g, res) == [g EXCEPT !.lines = res.lines, !.raised = res.raised]

\* _handle_normal_keypress with 'o' opening the line at the cursor column:
\* set_text(row, col, row, col, '\n')
handle_normal_keypress_OpensAtCursor(g, char) ==
    LET cur_line_len == Len(get_lines(g.lines)[g.row + 1])
    IN  CASE char = 113 -> [g EXCEPT !.will_exit = TRUE]
          [] char = 106 -> [g EXCEPT !.row = g.row + 1]
          [] char = 107 -> [g EXCEPT !.row = g.row - 1]
          [] char = 104 -> [g EXCEPT !.col = g.col - 1]
          [] char = 108 -> [g EXCEPT !.col = g.col + 1]
          [] char = 48 -> [g EXCEPT !.col = 0]
          [] char = 36 -> [g EXCEPT !.col = cur_line_len - 1]
          [] char = 120 ->
                Edited(g, set_text(g.lines, g.row, g.col, g.row, g.col + 1, <<>>))
          [] char = 105 -> [g EXCEPT !.mode = "insert"]
          [] char = 97 -> [g EXCEPT !.mode = "insert", !.col = g.col + 1]
          [] char = 111 ->
                LET res == set_text(g.lines, g.row, g.col, g.row, g.col, <<NL>>)
                IN  IF res.raised THEN Edited(g, res)
                    ELSE [Edited(g, res) EXCEPT !.row = g.row + 1, !.col = 0,
                                                !.mode = "insert"]
          [] char = 79 ->
                LET res == set_text(g.lines, g.row, 0, g.row, 0, <<NL>>)
                IN  IF res.raised THEN Edited(g, res)
                    ELSE [Edited(g, res) EXCEPT !.col = 0, !.mode = "insert"]
          [] OTHER -> g

\* EditorGUI._handle_normal_keypress
handle_normal_keypress(g, char) ==
    LET cur_line_len == Len(get_lines(g.lines)[g.row + 1])
    IN  CASE char = 113 -> [g EXCEPT !.will_exit = TRUE]
          [] char = 106 -> [g EXCEPT !.row = g.row + 1]
          [] char = 107 -> [g EXCEPT !.row = g.row - 1]
          [] char = 104 -> [g EXCEPT !.col = g.col - 1]
          [] char = 108 -> [g EXCEPT !.col = g.col + 1]
          [] char = 48 -> [g EXCEPT !.col = 0]
          [] char = 36 -> [g EXCEPT !.col = cur_line_len - 1]
          [] char = 120 ->
                Edited(g, set_text(g.lines, g.row, g.col, g.row, g.col + 1, <<>>))
          [] char = 105 -> [g EXCEPT !.mode = "insert"]
          [] char = 97 -> [g EXCEPT !.mode = "insert", !.col = g.col + 1]
          [] char = 111 ->
                LET res == set_text(g.lines, g.row, cur_line_len,
                                    g.row, cur_line_len, <<NL>>)
                IN  IF res.raised THEN Edited(g, res)
                    ELSE [Edited(g, res) EXCEPT !.row = g.row + 1, !.col = 0,
                                                !.mode = "insert"]
          [] char = 79 ->
                LET res == set_text(g.lines, g.row, 0, g.row, 0, <<NL>>)
                IN  IF res.raised THEN Edited(g, res)
                    ELSE [Edited(g, res) EXCEPT !.col = 0, !.mode = "insert"]
          [] OTHER -> g

\* _handle_insert_keypress without the test for a newline: the cursor moves
\* one column right after every character
handle_insert_keypress_NoNewlineCase(g, char) ==
    IF char = ESC
    THEN [g EXCEPT !.col = IF g.mode = "insert" THEN g.col - 1 ELSE g.col,
                   !.mode = "normal"]
    ELSE IF char = BACKSPACE
    THEN IF g.col = 0 /\ g.row = 0 THEN g
         ELSE IF g.col = 0
         THEN LET prev_line == get_lines(g.lines)[g.row]
                  cur_line == get_lines(g.lines)[g.row + 1]
                  res == set_text(g.lines, g.row - 1, 0, g.row, Len(cur_line),
                                  prev_line \o cur_line)
              IN  IF res.raised THEN Edited(g, res)
                  ELSE [Edited(g, res) EXCEPT !.col = Len(prev_line),
                                              !.row = g.row - 1]
         ELSE LET res == set_text(g.lines, g.row, g.col - 1, g.row, g.col, <<>>)
              IN  IF res.raised THEN Edited(g, res)
                  ELSE [Edited(g, res) EXCEPT !.col = g.col - 1]
    ELSE LET res == set_text(g.lines, g.row, g.col, g.row, g.col, <<char>>)
         IN  IF res.raised THEN Edited(g, res)
             ELSE [Edited(g, res) EXCEPT !.col = g.col + 1]

\* EditorGUI._handle_insert_keypress
handle_insert_keypress(g, char) ==
    IF char = ESC
    THEN [g EXCEPT !.col = IF g.mode = "insert" THEN g.col - 1 ELSE g.col,
                   !.mode = "normal"]
    ELSE IF char = BACKSPACE
    THEN IF g.col = 0 /\ g.row = 0 THEN g
         ELSE IF g.col = 0
         THEN LET prev_line == get_lines(g.lines)[g.row]
                  cur_line == get_lines(g.lines)[g.row + 1]
                  res == set_text(g.lines, g.row - 1, 0, g.row, Len(cur_line),
                                  prev_line \o cur_line)
              IN  IF res.raised THEN Edited(g, res)
                  ELSE [Edited(g, res) EXCEPT !.col = Len(prev_line),
                                              !.row = g.row - 1]
         ELSE LET res == set_text(g.lines, g.row, g.col - 1, g.row, g.col, <<>>)
              IN  IF res.raised THEN Edited(g, res)
                  ELSE [Edited(g, res) EXCEPT !.col = g.col - 1]
    ELSE LET res == set_text(g.lines, g.row, g.col, g.row, g.col, <<char>>)
         IN  IF res.raised THEN Edited(g, res)
             ELSE IF char = NL
             THEN [Edited(g, res) EXCEPT !.row = g.row + 1, !.col = 0]
             ELSE [Edited(g, res) EXCEPT !.col = g.col + 1]

\* the clipping of the row alone: the column is left as the handler set it
ClipPosition_RowOnly(g) ==
    [g EXCEPT !.row = Min(Len(get_lines(g.lines)) - 1, Max(0, g.row))]

\* a clipping that also scrolls the view up to the clipped row
ClipPosition_ScrollsUp(g) ==
    LET num_lines == Len(get_lines(g.lines))
        r == Min(num_lines - 1, Max(0, g.row))
        num_cols == Max(1, Len(get_lines(g.lines)[r + 1]))
                    + (IF g.mode = "insert" THEN 1 ELSE 0)
    IN  [g EXCEPT !.row = r, !.col = Min(num_cols - 1, Max(0, g.col)),
                  !.scroll_top = Min(g.scroll_top, r)]

\* the position clipping at the end of the loop body of EditorGUI.main
ClipPosition(g) ==
    LET num_lines == Len(get_lines(g.lines))
        r == Min(num_lines - 1, Max(0, g.row))
        num_cols == Max(1, Len(get_lines(g.lines)[r + 1]))
                    + (IF g.mode = "insert" THEN 1 ELSE 0)
    IN  [g EXCEPT !.row = r, !.col = Min(num_cols - 1, Max(0, g.col))]

-----------------------------------------------------------------------------
(* Values shared by the specifications *)

NoFrame == [drawn |-> FALSE]
NoCall == [op |-> "none"]
NoScroll == [called |-> FALSE]

\* the texts of length <= n over the characters in chars
RECURSIVE Texts(_, _)
Texts(chars, n) ==
    IF n = 0 THEN {<<>>}
    ELSE LET shorter == Texts(chars, n - 1)
         IN  shorter \cup {Append(t, c) : t \in shorter, c \in chars}

RECURSIVE TotalLen(_)
TotalLen(ls) == IF ls = <<>> THEN 0 ELSE Len(Head(ls)) + TotalLen(Tail(ls))

WithinBounds(ls) ==
    /\ Len(ls) <= MaxLines
    /\ TotalLen(ls) <= MaxChars

-----------------------------------------------------------------------------
(* SpecBuffer: the Buffer class under a driver that calls its methods *)

\* 'a', 'b' and the newline
BufferChars == {97, 98, NL}

\* the texts the driver passes to set_text: '', 'a', '\n', 'b\n', 'a\nb', '\n\n'
SetTexts == {<<>>, <<97>>, <<NL>>, <<98, NL>>, <<97, NL, 98>>, <<NL, NL>>}

\* b = Buffer(text): call holds the text the buffer was made from
InitBuffer ==
    /\ \E text \in Texts(BufferChars, MaxInitLen) :
          /\ lines = BufferInit(text)
          /\ call = [op |-> "init", text |-> text]
    /\ row = 0 /\ col = 0 /\ scroll_top = 0
    /\ mode = "normal" /\ will_exit = FALSE
    /\ pc = "buffer" /\ err = ""
    /\ frame = NoFrame /\ scroll = NoScroll

\* b.set_text(row1, col1, row2, col2, text), with the ValueError caught by the
\* caller as in test_buffer_set_text_negative_row and the tests after it
SetTextCall ==
    /\ pc = "buffer"
    /\ WithinBounds(lines)
    /\ \E r1 \in -1..MaxLines, r2 \in -1..MaxLines,
          c1 \in -1..(MaxChars + 1), c2 \in -1..(MaxChars + 1),
          text \in SetTexts :
          LET res == set_text(lines, r1, c1, r2, c2, text)
          IN  /\ lines' = res.lines
              /\ call' = [op |-> "set_text", row1 |-> r1, col1 |-> c1,
                          row2 |-> r2, col2 |-> c2, text |-> text,
                          old |-> lines, raised |-> res.raised]
    /\ pc' = "returned"
    /\ UNCHANGED <<row, col, scroll_top, mode, will_exit, err, frame, scroll>>

\* the driver has looked at the outcome of the call and goes on to its next one
NextCall ==
    /\ pc = "returned"
    /\ pc' = "buffer"
    /\ call' = NoCall
    /\ UNCHANGED <<lines, row, col, scroll_top, mode, will_exit, err, frame, scroll>>

NextBuffer == SetTextCall \/ NextCall

SpecBuffer == InitBuffer /\ [][NextBuffer]_vars

-----------------------------------------------------------------------------
(* Spec: EditorGUI.main.  The terminal is scaled down so that lines of a    *)
(* few characters wrap and scroll: _draw_text depends on the terminal only  *)
(* through the width and height it is given.  _draw_status_line and the     *)
(* curses calls paint and keep no state; they are not modelled.             *)

\* what the file named on the command line holds: no file, 'q\n\t',
\* '\x01\x80' (control and non-ASCII characters)
InitFiles == {<<>>, <<113, NL, TAB>>, <<1, 128>>}

\* stdscr.getmaxyx(): the terminal may be resized between frames
TermHeights == {2, 3}
TermWidths == {6, 9}

\* stdscr.getch(): the keys _handle_normal_keypress knows and one it does
\* not ('b'); in insert mode escape, backspace, newline and 'q' (tabs come
\* from the file)
NormalKeys == {113, 106, 107, 104, 108, 48, 36, 120, 105, 97, 111, 79, 119, 98}
InsertKeys == {ESC, BACKSPACE, NL, 113}

WithinEditBounds(ls) ==
    /\ Len(ls) <= MaxEditLines
    /\ TotalLen(ls) <= MaxEditChars

\* EditorGUI.__init__
Init ==
    /\ \E text \in InitFiles : lines = BufferInit(text)
    /\ row = 0 /\ col = 0 /\ scroll_top = 0
    /\ mode = "normal" /\ will_exit = FALSE
    /\ pc = "draw" /\ err = ""
    /\ frame = NoFrame /\ call = NoCall /\ scroll = NoScroll

Gui == [lines |-> lines, row |-> row, col |-> col, scroll_top |-> scroll_top,
        mode |-> mode, will_exit |-> will_exit, raised |-> FALSE]

\* self._draw() in EditorGUI.main: _draw_text(0, 0, width, height - 1); an
\* AssertionError ends the program
Draw ==
    /\ pc = "draw"
    /\ \E height \in TermHeights, width \in TermWidths :
          LET f == draw_text(lines, row, col, scroll_top, 0, 0, width, height - 1)
          IN  /\ frame' = f
              /\ scroll_top' = f.scroll_top
              /\ pc' = IF f.state = "drawn" THEN "getch" ELSE "crashed"
              /\ err' = IF f.state = "drawn" THEN "" ELSE "AssertionError"
    /\ UNCHANGED <<lines, row, col, mode, will_exit, call, scroll>>

\* the rest of the loop body once the handler has run: g is what the handler
\* left; a ValueError ends the program, otherwise the position is clipped
\* and the loop tests _will_exit
AfterKeypress(g) ==
    /\ g.raised \/ WithinEditBounds(g.lines)
    /\ IF g.raised
       THEN /\ pc' = "crashed" /\ err' = "ValueError"
            /\ UNCHANGED <<lines, row, col, scroll_top, mode, will_exit>>
       ELSE LET h == ClipPosition(g)
            IN  /\ lines' = h.lines /\ row' = h.row /\ col' = h.col
                /\ scroll_top' = h.scroll_top
                /\ mode' = h.mode /\ will_exit' = h.will_exit
                /\ pc' = IF h.will_exit THEN "exited" ELSE "draw"
                /\ err' = ""
    /\ frame' = NoFrame
    /\ UNCHANGED <<call, scroll>>

\* char = getch() with _mode == 'normal'
NormalKeypress ==
    /\ pc = "getch" /\ mode = "normal"
    /\ \E char \in NormalKeys : AfterKeypress(handle_normal_keypress(Gui, char))

\* char = getch() with _mode == 'insert'
InsertKeypress ==
    /\ pc = "getch" /\ mode = "insert"
    /\ \E char \in InsertKeys : AfterKeypress(handle_insert_keypress(Gui, char))

Next == Draw \/ NormalKeypress \/ InsertKeypress

Spec == Init /\ [][Next]_vars

-----------------------------------------------------------------------------
(* Properties of the Buffer class, checked under SpecBuffer *)

\* a valid point of line list ls, as section 3 of the specification defines it
ValidPoint(ls, r, c) ==
    /\ 0 <= r /\ r < Len(ls)
    /\ 0 <= c /\ c <= Len(ls[r + 1])

\* (r1, c1) is not after (r2, c2)
NotAfter(r1, c1, r2, c2) == r1 < r2 \/ (r1 = r2 /\ c1 <= c2)

\* parts is the newline-split of text: joining gives text back and no part
\* holds a newline
IsSplitOf(parts, text) ==
    /\ Len(parts) >= 1
    /\ join(parts) = text
    /\ \A i \in 1..Len(parts) : \A j \in 1..Len(parts[i]) : parts[i][j] # NL

Returned == call.op = "set_text"
Succeeded == Returned /\ ~call.raised
OrderedCall ==
    /\ Succeeded
    /\ NotAfter(call.row1, call.col1, call.row2, call.col2)

\* C1: after set_text on two valid points with start not after end, the line
\* list is the old lines before row1, then the newline-split of
\* old[row1][0:col1] + text + old[row2][col2:], then the old lines after row2.
C1_SetTextResult ==
    (/\ Returned
     /\ ValidPoint(call.old, call.row1, call.col1)
     /\ ValidPoint(call.old, call.row2, call.col2)
     /\ NotAfter(call.row1, call.col1, call.row2, call.col2))
    => LET old == call.old
           nAfter == Len(old) - (call.row2 + 1)
           line == SubSeq(old[call.row1 + 1], 1, call.col1) \o call.text
                   \o SubSeq(old[call.row2 + 1], call.col2 + 1,
                             Len(old[call.row2 + 1]))
       IN  /\ Len(lines) >= call.row1 + 1 + nAfter
           /\ SubSeq(lines, 1, call.row1) = SubSeq(old, 1, call.row1)
           /\ IsSplitOf(SubSeq(lines, call.row1 + 1, Len(lines) - nAfter), line)
           /\ SubSeq(lines, Len(lines) - nAfter + 1, Len(lines))
              = SubSeq(old, call.row2 + 2, Len(old))

\* a replacement across two lines, with text on both sides kept, lines after
\* it, and a newline in the new text
C1_Witness ==
    /\ OrderedCall
    /\ call.row1 < call.row2
    /\ call.col1 > 0
    /\ call.col2 < Len(call.old[call.row2 + 1])
    /\ call.text = <<97, NL, 98>>
    /\ lines # call.old

\* C2: the buffer is never empty, after construction from any text and after
\* any set_text call, raising or not, ordered or not.
C2_NeverEmpty == Len(get_lines(lines)) >= 1

\* a successful call whose end point is before its start point, and one that
\* deleted everything a two-line buffer held
C2_Witness ==
    /\ Succeeded
    /\ \/ ~NotAfter(call.row1, call.col1, call.row2, call.col2)
       \/ (Len(call.old) = 2 /\ call.old # <<<<>>, <<>>>> /\ lines = <<<<>>>>)

\* C3: set_text raises ValueError exactly when one of its two points is
\* invalid; the order of the points is not checked.
C3_RaisesIffInvalid ==
    Returned =>
        (call.raised <=> ~(/\ ValidPoint(call.old, call.row1, call.col1)
                           /\ ValidPoint(call.old, call.row2, call.col2)))

\* accepted: a start point at the end of its line, with the end point before it
C3_Witness ==
    /\ Succeeded
    /\ call.col1 = Len(call.old[call.row1 + 1])
    /\ call.col1 > 0
    /\ ~NotAfter(call.row1, call.col1, call.row2, call.col2)

\* C4: when set_text raises, the lines are what they were before the call.
C4_RaiseLeavesBuffer == (Returned /\ call.raised) => lines = call.old

\* a raising call whose first point was valid and inside a line
C4_Witness ==
    /\ Returned /\ call.raised
    /\ ValidPoint(call.old, call.row1, call.col1)
    /\ call.col1 > 0 /\ call.col1 < Len(call.old[call.row1 + 1])
    /\ call.text # <<>>

\* the text of line list ls between two points of it, newlines included
RECURSIVE ReadRange(_, _, _, _, _)
ReadRange(ls, r1, c1, r2, c2) ==
    IF r1 = r2 THEN SubSeq(ls[r1 + 1], c1 + 1, c2)
    ELSE SubSeq(ls[r1 + 1], c1 + 1, Len(ls[r1 + 1])) \o <<NL>>
         \o ReadRange(ls, r1 + 1, 0, r2, c2)

CountNewlines(t) == Cardinality({i \in 1..Len(t) : t[i] = NL})
LastNewline(t) ==
    IF CountNewlines(t) = 0 THEN 0
    ELSE CHOOSE i \in 1..Len(t) : t[i] = NL /\ \A j \in (i + 1)..Len(t) : t[j] # NL

\* the point where text t ends when it starts at (r, c)
EndRow(r, t) == r + CountNewlines(t)
EndCol(c, t) ==
    IF CountNewlines(t) = 0 THEN c + Len(t) ELSE Len(t) - LastNewline(t)

\* C5: after a successful set_text with start not after end, reading the
\* buffer from (row1, col1) to the point k lines down where t ends gives t
\* back; what was before (row1, col1) and what followed (row2, col2) is
\* unchanged.
C5_RoundTrip ==
    OrderedCall =>
        LET old == call.old
            er == EndRow(call.row1, call.text)
            ec == EndCol(call.col1, call.text)
        IN  /\ ValidPoint(lines, call.row1, call.col1)
            /\ ValidPoint(lines, er, ec)
            /\ ReadRange(lines, call.row1, call.col1, er, ec) = call.text
            /\ ReadRange(lines, 0, 0, call.row1, call.col1)
               = ReadRange(old, 0, 0, call.row1, call.col1)
            /\ ReadRange(lines, er, ec, Len(lines) - 1, Len(lines[Len(lines)]))
               = ReadRange(old, call.row2, call.col2,
                           Len(old) - 1, Len(old[Len(old)]))

\* a replacement inside one line by a text that ends in a newline, with a
\* line kept before it and text kept after it
C5_Witness ==
    /\ OrderedCall
    /\ call.row1 = call.row2 /\ call.row1 > 0
    /\ call.col1 < call.col2
    /\ call.col2 < Len(call.old[call.row2 + 1])
    /\ call.text = <<98, NL>>

-----------------------------------------------------------------------------
(* SpecScroll: EditorGUI._scroll_to called on arbitrary buffers *)

\* lines of 0, 1, 3 and 5 cells: '', 'a', 'aaa', '\ta'
ScrollLineKinds == {<<>>, <<97>>, <<97, 97, 97>>, <<TAB, 97>>}
ScrollWidths == {1, 2, 3}
ScrollHeights == {1, 2, 3, 5}

\* the buffer of the scenario of section 8: 20 lines of one cell each
TwentyLines == [i \in 1..20 |-> <<97>>]

InitScroll ==
    /\ \/ \E n \in 1..MaxScrollLines : lines \in [1..n -> ScrollLineKinds]
       \/ lines = TwentyLines
    /\ scroll_top \in 0..MaxScrollLines
    /\ row = 0 /\ col = 0
    /\ mode = "normal" /\ will_exit = FALSE
    /\ pc = "scroll" /\ err = ""
    /\ frame = NoFrame /\ call = NoCall /\ scroll = NoScroll

\* gui._scroll_to(line_num, width, row_height); an AssertionError ends the run
ScrollToCall ==
    /\ pc = "scroll"
    /\ \E line_num \in 0..(Len(lines) - 1), width \in ScrollWidths,
          row_height \in ScrollHeights :
          LET res == scroll_to(lines, scroll_top, line_num, width, row_height)
          IN  /\ scroll_top' = res.scroll_top
              /\ scroll' = [called |-> TRUE, line_num |-> line_num,
                            width |-> width, row_height |-> row_height,
                            before |-> scroll_top, ok |-> res.ok,
                            lowest_top |-> res.lowest_top]
              /\ pc' = IF res.ok THEN "scrolled" ELSE "crashed"
              /\ err' = IF res.ok THEN "" ELSE "AssertionError"
    /\ UNCHANGED <<lines, row, col, mode, will_exit, frame, call>>

\* the caller goes on to its next call
NextScrollCall ==
    /\ pc = "scrolled"
    /\ pc' = "scroll"
    /\ scroll' = NoScroll
    /\ UNCHANGED <<lines, row, col, scroll_top, mode, will_exit, err, frame, call>>

NextScroll == ScrollToCall \/ NextScrollCall

SpecScroll == InitScroll /\ [][NextScroll]_vars

-----------------------------------------------------------------------------
(* Properties of the scrolling code, checked under SpecScroll *)

\* the display rows one line takes at a wrap width: its expansion cut into
\* rows of width cells, and one row for an empty line
RowsOfText(line, width) ==
    LET cells == Len(convert_nonprinting(line))
    IN  IF cells = 0 THEN 1 ELSE (cells + width - 1) \div width

\* the display rows lines top..bottom of ls take
RECURSIVE DisplayRows(_, _, _, _)
DisplayRows(ls, top, bottom, width) ==
    IF top > bottom THEN 0
    ELSE RowsOfText(ls[top + 1], width) + DisplayRows(ls, top + 1, bottom, width)

\* the cursor line alone fits in the rows available
TargetFits(ls, target, width, height) ==
    DisplayRows(ls, target, target, width) <= height

\* r is a first visible line for target that fits and cannot be one line higher
FitsAndTight(ls, r, target, width, height) ==
    /\ DisplayRows(ls, r, target, width) <= height
    /\ r > 0 => DisplayRows(ls, r - 1, target, width) > height

C8_WitnessWrapped ==
    /\ scroll.called /\ scroll.ok
    /\ 0 < scroll.lowest_top /\ scroll.lowest_top < scroll.line_num
    /\ RowsOfText(lines[scroll.lowest_top + 1], scroll.width) > 1

\* C9 as stated: _scroll_to sets scrollTop to cursorRow if cursorRow <
\* scrollTop, else to minimalTopFor(cursorRow) if scrollTop is below it, and
\* leaves it unchanged otherwise.
C9_ScrollToRule ==
    scroll.called =>
        scroll_top = IF scroll.line_num < scroll.before THEN scroll.line_num
                     ELSE IF scroll.before < scroll.lowest_top
                          THEN scroll.lowest_top
                     ELSE scroll.before

\* the rule restricted to the calls that return
C9_ScrollToRuleWhenReturns ==
    (scroll.called /\ scroll.ok) =>
        scroll_top = IF scroll.line_num < scroll.before THEN scroll.line_num
                     ELSE IF scroll.before < scroll.lowest_top
                          THEN scroll.lowest_top
                     ELSE scroll.before

\* a call that should scroll up to the cursor line and raises instead
C9_RaisedInsteadOfScrollingUp ==
    /\ scroll.called /\ ~scroll.ok
    /\ scroll.line_num < scroll.before
    /\ scroll_top = scroll.before

-----------------------------------------------------------------------------
(* Properties of the frames EditorGUI.main draws, checked under Spec *)

FrameDrawn == pc = "getch" /\ frame.state = "drawn"
FrameAttempted == pc \in {"getch", "crashed"} /\ frame # NoFrame

\* C6: after every frame that completes, 0 <= scrollTop <= cursor row <
\* lineCount, and lines scrollTop..cursorRow, wrapped with expansion at the
\* frame's wrap width, take at most the text-area height in display rows.
C6_CursorLineVisible ==
    FrameDrawn =>
        /\ 0 <= scroll_top /\ scroll_top <= row /\ row < Len(lines)
        /\ DisplayRows(lines, scroll_top, row, frame.line_width) <= frame.height

\* a frame drawn after an edit deleted the lines the viewport started at: the
\* old scrollTop was past the end of the buffer
C6_Witness ==
    /\ FrameDrawn
    /\ frame.before >= Len(lines)
    /\ scroll_top = row

\* the screen rows painted with a segment of line number line_num
RowsOfLine(line_num) ==
    {frame.painted[i].y : i \in {j \in 1..Len(frame.painted) :
        frame.painted[j].kind = "text" /\ frame.painted[j].line_num = line_num}}

CursorInTextArea ==
    /\ frame.top <= frame.cursor_y
    /\ frame.cursor_y < frame.top + frame.height
    /\ frame.cursor_y \in RowsOfLine(row)
    /\ frame.left + frame.gutter_width <= frame.cursor_x
    /\ frame.cursor_x < frame.left + frame.width

\* C7: in every frame that completes, in normal and in insert mode, the
\* cursor cell lies inside the text area, on a screen row painted with a
\* segment of the cursor's line and right of the gutter.
C7_CursorInTextArea == FrameDrawn => CursorInTextArea

\* the same for the frames drawn in normal mode only
C7_CursorInTextAreaNormalMode ==
    (FrameDrawn /\ mode = "normal") => CursorInTextArea

\* a frame whose cursor cell is on the row below the text area
C7_CursorBelowTextArea ==
    /\ FrameDrawn
    /\ frame.cursor_y = frame.top + frame.height

\* C10: when the cursor's line alone wraps to more display rows than the
\* text area is high, drawing the frame still completes: no assertion fails
\* and the frame holds a truncation marker and a cursor cell.
C10_OversizeLineDrawn ==
    (/\ FrameAttempted
     /\ RowsOfText(lines[row + 1], frame.line_width) > frame.height)
    => /\ frame.state = "drawn"
       /\ frame.trailing_char = "@"
       /\ frame.cursor_y # None /\ frame.cursor_x # None

\* every frame attempted on such a line ends in the AssertionError of verify
C10_OversizeLineFails ==
    (/\ FrameAttempted
     /\ RowsOfText(lines[row + 1], frame.line_width) > frame.height)
    => /\ frame.state = "failed" /\ frame.assertion = "verify"
       /\ pc = "crashed" /\ err = "AssertionError"

-----------------------------------------------------------------------------
(* Properties of the frames and of the main loop, checked under Spec *)

\* the rows of the frame that hold a wrapped line of the cursor's line
CursorLineRows ==
    {i \in 1..Len(frame.painted) :
        frame.painted[i].kind = "text" /\ frame.painted[i].line_num = row}

\* C11: in every frame in which _scroll_to returns (its assertion does not
\* fail), the walk of _draw_text from _scroll_top paints the cursor's line
\* before the rows run out, cursor_y and cursor_x are set and the final
\* assertion holds: the frame is drawn.
C11_CursorLineReached ==
    (FrameAttempted /\ frame.assertion # "verify")
    => /\ frame.state = "drawn" /\ frame.assertion = ""
       /\ frame.cursor_y # None /\ frame.cursor_x # None
       /\ frame.scroll_top <= row
       /\ Cardinality(CursorLineRows)
             = RowsOfText(lines[row + 1], frame.line_width)
       /\ \A i \in CursorLineRows :
             frame.painted[i].y < frame.top + frame.height

\* a frame whose view scrolled up to a cursor line that is not the last line
\* painted
C11_Witness ==
    /\ FrameDrawn
    /\ row < frame.before
    /\ \E i \in 1..Len(frame.painted) :
          frame.painted[i].kind = "text" /\ frame.painted[i].line_num > row

\* C12: after every iteration of the main loop - a key handled in either
\* mode, then the clipping - the row is a line of the buffer and the column
\* is below max(1, len(line)) in normal mode and below max(1, len(line)) + 1
\* in insert mode.
C12_PositionClipped ==
    /\ 0 <= row /\ row <= Len(lines) - 1
    /\ 0 <= col
    /\ col < Max(1, Len(lines[row + 1])) + (IF mode = "insert" THEN 1 ELSE 0)

\* an iteration that left the cursor in insert mode after the last character
\* of a line below the first
C12_Witness ==
    /\ pc = "draw" /\ frame = NoFrame /\ mode = "insert"
    /\ row > 0 /\ Len(lines[row + 1]) > 0
    /\ col = Len(lines[row + 1])

-----------------------------------------------------------------------------
(* SpecSnapshot: the list Buffer.get_lines returns, kept by the caller while *)
(* the list and the buffer are changed, as in test_buffer_get_lines:         *)
(*     b.get_lines().append('f'); assert b.get_lines() == ['']               *)
(* call holds the reference returned, the buffer at the time of the call,    *)
(* and what was done since: one append on the list, one set_text on the      *)
(* buffer, in either order.                                                  *)

\* the line 'f' appended to the returned list
AppendedLine == <<102>>

NoEdit == [done |-> FALSE]

InitSnapshot ==
    /\ \E text \in Texts(BufferChars, MaxInitLen) : lines = BufferInit(text)
    /\ row = 0 /\ col = 0 /\ scroll_top = 0
    /\ mode = "normal" /\ will_exit = FALSE
    /\ pc = "snapshot" /\ err = ""
    /\ frame = NoFrame /\ call = NoCall /\ scroll = NoScroll

\* returned = b.get_lines()
GetLinesCall ==
    /\ pc = "snapshot"
    /\ call' = [op |-> "get_lines", list |-> get_lines_return(lines),
                at_call |-> lines, appended |-> FALSE, edit |-> NoEdit]
    /\ pc' = "holding"
    /\ UNCHANGED <<lines, row, col, scroll_top, mode, will_exit, err, frame,
                   scroll>>

\* returned.append('f'): list.append changes the list object in place
AppendToReturned ==
    /\ pc = "holding" /\ ~call.appended
    /\ IF call.list.obj = "_lines"
       THEN /\ lines' = Append(lines, AppendedLine)
            /\ call' = [call EXCEPT !.appended = TRUE]
       ELSE /\ lines' = lines
            /\ call' = [call EXCEPT !.appended = TRUE,
                           !.list.items = Append(@, AppendedLine)]
    /\ UNCHANGED <<row, col, scroll_top, mode, will_exit, pc, err, frame, scroll>>

\* b.set_text(row1, col1, row2, col2, text) while the caller holds the list:
\* the slice assignment changes self._lines in place
SetTextHolding ==
    /\ pc = "holding" /\ ~call.edit.done
    /\ \E r1 \in 0..MaxLines, r2 \in 0..MaxLines,
          c1 \in 0..MaxChars, c2 \in 0..MaxChars, text \in SetTexts :
          LET res == set_text(lines, r1, c1, r2, c2, text)
          IN  /\ ~res.raised
              /\ WithinBounds(res.lines)
              /\ lines' = res.lines
              /\ call' = [call EXCEPT !.edit = [done |-> TRUE, row1 |-> r1,
                              col1 |-> c1, row2 |-> r2, col2 |-> c2,
                              text |-> text]]
    /\ UNCHANGED <<row, col, scroll_top, mode, will_exit, pc, err, frame, scroll>>

\* the caller drops the list
DropReturned ==
    /\ pc = "holding"
    /\ pc' = "snapshot" /\ call' = NoCall
    /\ UNCHANGED <<lines, row, col, scroll_top, mode, will_exit, err, frame,
                   scroll>>

NextSnapshot ==
    GetLinesCall \/ AppendToReturned \/ SetTextHolding \/ DropReturned

SpecSnapshot == InitSnapshot /\ [][NextSnapshot]_vars

\* C18: get_lines() returns a snapshot: changing the returned list does not
\* change the buffer - the buffer holds what it held at the call, or what the
\* one set_text made since gives from that -, and a later set_text does not
\* change the list returned earlier - the list holds the lines of the buffer
\* at the call and the line the caller appended.
C18_GetLinesSnapshot ==
    (pc = "holding" /\ call.op = "get_lines")
    => /\ lines = (IF call.edit.done
                   THEN LET e == call.edit
                        IN  set_text(call.at_call, e.row1, e.col1, e.row2,
                                     e.col2, e.text).lines
                   ELSE call.at_call)
       /\ ListItems(call.list, lines)
             = call.at_call \o (IF call.appended THEN <<AppendedLine>>
                                ELSE <<>>)

\* the returned list was appended to and the buffer was edited since: the two
\* differ in more than the appended line
C18_Witness ==
    /\ pc = "holding" /\ call.op = "get_lines"
    /\ call.appended /\ call.edit.done
    /\ Len(lines) > Len(call.at_call)
    /\ lines # ListItems(call.list, lines)
    /\ lines # call.at_call

-----------------------------------------------------------------------------
(* Wrapping and expansion of one line: the buffer holds the line, and        *)
(* _get_wrapped_lines and _convert_nonprinting are called on it as           *)
(* _draw_text and _scroll_bottom_to_top call them.  call holds the last call *)
(* and what it returned.                                                     *)

\* character codes (ord) at the edges of the branches of
\* _convert_nonprinting: 0, tab, 15 | 16, 31 | 32, 'a', 126 | 127, 255
WrapChars == {0, TAB, 15, 16, 31, 32, 97, 126, 127, 255}

\* the longest line built from WrapChars
MaxWrapLen == 3

\* the line 'abcdef'
Abcdef == <<97, 98, 99, 100, 101, 102>>

\* the width argument of _get_wrapped_lines
WrapWidths == {1, 2, 3, 5}

InitWrap ==
    /\ \E line \in Texts(WrapChars, MaxWrapLen) \cup {Abcdef} : lines = <<line>>
    /\ row = 0 /\ col = 0 /\ scroll_top = 0
    /\ mode = "normal" /\ will_exit = FALSE
    /\ pc = "wrap" /\ err = ""
    /\ frame = NoFrame /\ call = NoCall /\ scroll = NoScroll

\* self._get_wrapped_lines(0, width, convert_nonprinting)
GetWrappedLinesCall ==
    /\ pc = "wrap"
    /\ \E width \in WrapWidths, convert \in BOOLEAN :
          call' = [op |-> "get_wrapped_lines", line |-> lines[1],
                   width |-> width, convert |-> convert,
                   result |-> get_wrapped_lines(lines, 0, width, convert)]
    /\ pc' = "wrapped"
    /\ UNCHANGED <<lines, row, col, scroll_top, mode, will_exit, err, frame,
                   scroll>>

\* self._convert_nonprinting(line)
ConvertNonprintingCall ==
    /\ pc = "wrap"
    /\ call' = [op |-> "convert_nonprinting", text |-> lines[1],
                result |-> convert_nonprinting(lines[1])]
    /\ pc' = "wrapped"
    /\ UNCHANGED <<lines, row, col, scroll_top, mode, will_exit, err, frame,
                   scroll>>

\* the next call on the same line
NextWrapCall ==
    /\ pc = "wrapped"
    /\ pc' = "wrap" /\ call' = NoCall
    /\ UNCHANGED <<lines, row, col, scroll_top, mode, will_exit, err, frame,
                   scroll>>

NextWrap == GetWrappedLinesCall \/ ConvertNonprintingCall \/ NextWrapCall

SpecWrap == InitWrap /\ [][NextWrap]_vars

-----------------------------------------------------------------------------
(* Properties of wrapping and expansion, checked under SpecWrap *)

\* C13: for every line and every width >= 1, wrapping returns at least one
\* segment - exactly one empty segment for the empty line -, the segments
\* concatenated in order are the line that was wrapped (the expanded line
\* when the expansion was asked for), and no segment is longer than width.
C13_WrapPartitions ==
    (pc = "wrapped" /\ call.op = "get_wrapped_lines")
    => LET wrapped == IF call.convert THEN convert_nonprinting(call.line)
                      ELSE call.line
       IN  /\ call.width >= 1
           /\ Len(call.result) >= 1
           /\ wrapped = <<>> => call.result = << <<>> >>
           /\ Concat(call.result) = wrapped
           /\ \A k \in 1..Len(call.result) : Len(call.result[k]) <= call.width

\* width 3 on 'abcdef' gives ['abc', 'def']
C13_Witness ==
    /\ pc = "wrapped" /\ call.op = "get_wrapped_lines"
    /\ call.line = Abcdef /\ call.width = 3
    /\ call.result = << <<97, 98, 99>>, <<100, 101, 102>> >>

\* the empty line wrapped to one empty segment
C13_WitnessEmptyLine ==
    /\ pc = "wrapped" /\ call.op = "get_wrapped_lines"
    /\ call.line = <<>> /\ call.result = << <<>> >>

\* the value of a string of hex digits '0'..'9', 'a'..'f'; -1 when another
\* character is in it
RECURSIVE HexValue(_)
HexValue(digits) ==
    IF digits = <<>> THEN 0
    ELSE LET c == digits[Len(digits)]
             v == IF c >= 48 /\ c <= 57 THEN c - 48
                  ELSE IF c >= 97 /\ c <= 102 THEN c - 87 ELSE -1
             rest == HexValue(SubSeq(digits, 1, Len(digits) - 1))
         IN  IF v = -1 \/ rest = -1 THEN -1 ELSE 16 * rest + v

\* m is '<', the hex digits of c without a leading zero, '>'
IsHexMarker(m, c) ==
    /\ Len(m) >= 3
    /\ m[1] = 60 /\ m[Len(m)] = 62
    /\ HexValue(SubSeq(m, 2, Len(m) - 1)) = c
    /\ Len(m) > 3 => m[2] # 48

\* the expansion of each character of the converted text, on its own
UnitsOfCall ==
    [i \in 1..Len(call.text) |-> convert_nonprinting(<<call.text[i]>>)]

Printable(c) == c >= 32 /\ c <= 126

RECURSIVE SumLen(_)
SumLen(ls) == IF ls = <<>> THEN 0 ELSE Len(Head(ls)) + SumLen(Tail(ls))

\* C14 as stated: each unit is mapped on its own, a printable unit
\* (32..126) to itself, a tab to a 4-cell marker and every other unit to a
\* 3-cell bracketed-hex marker; the output length is the sum of these widths.
C14_ThreeCellMarkers ==
    (pc = "wrapped" /\ call.op = "convert_nonprinting")
    => /\ call.result = Concat(UnitsOfCall)
       /\ Len(call.result) = SumLen(UnitsOfCall)
       /\ \A i \in 1..Len(call.text) :
             LET c == call.text[i]
                 m == UnitsOfCall[i]
             IN  IF Printable(c) THEN m = <<c>>
                 ELSE IF c = TAB THEN Len(m) = 4
                 ELSE Len(m) = 3 /\ IsHexMarker(m, c)

\* C14: each unit is mapped on its own, a printable unit (32..126) to
\* itself, a tab to the 4-cell marker '->  ' and every other unit to '<',
\* its code in lowercase hex, '>': 3 cells for the codes 0..15 and 4 cells
\* for the codes 16..31 and 127..255; the output length is the sum of these
\* widths.
C14_HexMarkers ==
    (pc = "wrapped" /\ call.op = "convert_nonprinting")
    => /\ call.result = Concat(UnitsOfCall)
       /\ Len(call.result) = SumLen(UnitsOfCall)
       /\ \A i \in 1..Len(call.text) :
             LET c == call.text[i]
                 m == UnitsOfCall[i]
             IN  IF Printable(c) THEN m = <<c>>
                 ELSE IF c = TAB THEN m = <<45, 62, 32, 32>>
                 ELSE /\ IsHexMarker(m, c)
                      /\ Len(m) = IF c < 16 THEN 3 ELSE 4

\* a tab, a code below 16 and a code above 126 expanded to 4 + 3 + 4 cells:
\* '->  <f><ff>'
C14_Witness ==
    /\ pc = "wrapped" /\ call.op = "convert_nonprinting"
    /\ call.text = <<TAB, 15, 255>>
    /\ call.result = <<45, 62, 32, 32, 60, 102, 62, 60, 102, 102, 62>>

\* E of C15: the cells the expansion of line[row][0:col] takes
ExpandedPrefixLen == Len(convert_nonprinting(Prefix(lines[row + 1], col)))

\* the rows of the frame painted with the lines above the cursor's line
RowsAboveCursorLine ==
    {i \in 1..Len(frame.painted) :
        frame.painted[i].kind = "text" /\ frame.painted[i].line_num < row}

\* C15: the cursor cell is computed from the expanded prefix, not the raw
\* column: with E the length of the expansion of line[row][0:col] and W the
\* wrap width, cursor_y = top + (display rows painted for the lines
\* scroll_top..row-1) + E div W and cursor_x = left + gutter_width + E mod W.
C15_CursorCell ==
    FrameDrawn
    => /\ frame.cursor_y = frame.top + Cardinality(RowsAboveCursorLine)
                           + (ExpandedPrefixLen \div frame.line_width)
       /\ frame.cursor_x = frame.left + frame.gutter_width
                           + (ExpandedPrefixLen % frame.line_width)
       /\ Cardinality(RowsAboveCursorLine)
             = DisplayRows(lines, scroll_top, row - 1, frame.line_width)

\* a frame with lines painted above the cursor's line and a tab before the
\* cursor that takes it to the second row of its line
C15_Witness ==
    /\ FrameDrawn
    /\ scroll_top < row
    /\ col > 0 /\ Len(lines[row + 1]) > 0 /\ lines[row + 1][1] = TAB
    /\ ExpandedPrefixLen > col
    /\ mode = "normal"

\* the rows of the frame painted with a wrapped line, and the padded rows
TextRows == {i \in 1..Len(frame.painted) : frame.painted[i].kind = "text"}
PaddedRows == {i \in 1..Len(frame.painted) : frame.painted[i].kind = "empty"}

\* segment n (from 0) of a line at a wrap width: the cells n*width ..
\* (n+1)*width - 1 of its expansion
SegmentOf(line, width, n) ==
    LET cells == convert_nonprinting(line)
    IN  SubSeq(cells, n * width + 1, Min((n + 1) * width, Len(cells)))

\* row i of the frame ends a line: it holds the last segment of its line
EndsItsLine(i) ==
    frame.painted[i].n
        = RowsOfText(lines[frame.painted[i].line_num + 1], frame.line_width) - 1

\* C16: in every frame that completes the text area never overflows: each
\* screen row in [top, top + height) is painted exactly once, by one segment
\* or by one filler row, no segment is painted at a row >= top + height, the
\* lines are painted in buffer order from scroll_top, and a line is painted
\* with all of its segments or not at all.
C16_TextAreaNeverOverflows ==
    FrameDrawn
    => /\ Len(frame.painted) = frame.height
       /\ \A i \in 1..Len(frame.painted) :
             /\ frame.painted[i].y = frame.top + i - 1
             /\ frame.painted[i].y < frame.top + frame.height
       /\ \A i \in TextRows :
             LET p == frame.painted[i]
             IN  /\ p.line_num >= scroll_top /\ p.line_num < Len(lines)
                 /\ p.text = SegmentOf(lines[p.line_num + 1], frame.line_width, p.n)
                 /\ IF i = 1 THEN p.line_num = scroll_top /\ p.n = 0
                    ELSE LET q == frame.painted[i - 1]
                         IN  /\ q.kind = "text"
                             /\ \/ p.line_num = q.line_num /\ p.n = q.n + 1
                                \/ /\ p.line_num = q.line_num + 1 /\ p.n = 0
                                   /\ EndsItsLine(i - 1)
                 /\ (i = Len(frame.painted) \/ (i + 1) \in PaddedRows)
                    => EndsItsLine(i)

\* a frame with a filler row and a line of two segments or more that did not
\* fit below the cursor's line and was not painted at all
C16_Witness ==
    /\ FrameDrawn
    /\ PaddedRows # {}
    /\ \E k \in 1..Len(lines) :
          /\ RowsOfText(lines[k], frame.line_width) >= 2
          /\ \A i \in TextRows : frame.painted[i].line_num < k - 1

\* a frame with a line painted as two segments
C16_WitnessWrappedLine ==
    /\ FrameDrawn
    /\ \E i \in TextRows : frame.painted[i].n = 1 /\ Len(frame.painted[i].text) > 0

\* the line after the last line painted, Len(lines) when every line from
\* scroll_top to the end of the buffer was painted
NextUnpainted ==
    IF TextRows = {} THEN scroll_top
    ELSE 1 + frame.painted[CHOOSE i \in TextRows :
                               \A j \in TextRows : j <= i].line_num

\* C17: the rows left after the last painted segment are all padded with the
\* same marker: '~' when every line from scroll_top to the end of the buffer
\* was painted, '@' when the walk stopped at a line whose wrapped segments
\* did not fit in the rows that remained; the two cases are exclusive.
C17_PaddingMarker ==
    FrameDrawn
    => LET every_line_painted == NextUnpainted = Len(lines)
           stopped_at_unfit ==
               /\ NextUnpainted < Len(lines)
               /\ PaddedRows # {}
               /\ RowsOfText(lines[NextUnpainted + 1], frame.line_width)
                     > Cardinality(PaddedRows)
       IN  /\ \A i \in PaddedRows : \A j \in TextRows : j < i
           /\ \A i \in PaddedRows :
                 frame.painted[i].text = (IF every_line_painted THEN "~" ELSE "@")
           /\ PaddedRows # {} => (every_line_painted \/ stopped_at_unfit)
           /\ ~(every_line_painted /\ stopped_at_unfit)

\* a frame padded with '@' below the cursor's line: the next line did not fit
C17_Witness ==
    /\ FrameDrawn
    /\ NextUnpainted < Len(lines)
    /\ \E i \in PaddedRows : frame.painted[i].text = "@"

\* a frame padded with '~' after the last line of the buffer
C17_WitnessEndOfBuffer ==
    /\ FrameDrawn
    /\ NextUnpainted = Len(lines)
    /\ \E i \in PaddedRows : frame.painted[i].text = "~"

\* C19: _scroll_top is changed only by _scroll_to during a draw: the step
\* that handles a key - either handler, then the clipping - leaves it as it
\* was, whatever the key and the mode, and a draw sets it to what _scroll_to
\* chose for the frame.
C19_ScrollTopOnlyInDraw ==
    [][/\ pc = "getch" => scroll_top' = scroll_top
       /\ pc = "draw" => scroll_top' = frame'.scroll_top]_vars

\* a key has moved the cursor above the first line of the view and the view
\* is where the last frame left it
C19_Witness ==
    /\ pc = "draw" /\ frame = NoFrame
    /\ scroll_top > 0 /\ row < scroll_top

\* C20: no sequence of keypresses makes a buffer edit fail: from the initial
\* buffer with the cursor at (0, 0) in normal mode, every set_text call the
\* key handlers issue is given two valid points and never raises ValueError,
\* also on empty lines.
C20_NoEditRaises == ~(pc = "crashed" /\ err = "ValueError")

\* the edits that raise are those made with the cursor on an empty line
C20_RaisesOnlyOnEmptyLine ==
    (pc = "crashed" /\ err = "ValueError") => Len(lines[row + 1]) = 0

\* 'x' on an empty line: set_text(row, 0, row, 1, '') with column 1 past the
\* end of the line
C20_DeleteOnEmptyLineRaises ==
    (pc = "getch" /\ mode = "normal" /\ Len(lines[row + 1]) = 0)
    => handle_normal_keypress(Gui, 120).raised

-----------------------------------------------------------------------------
(* _scroll_bottom_to_top over the target rows of one buffer, checked under   *)
(* SpecScroll                                                                *)

\* every line of the buffer alone fits in the rows of the last call
EveryLineFits ==
    \A n \in 0..(Len(lines) - 1) :
        TargetFits(lines, n, scroll.width, scroll.row_height)

\* _scroll_bottom_to_top(target, width, height) with the width and height of
\* the last call
LowestTopFor(target) ==
    scroll_bottom_to_top(lines, target, scroll.width, scroll.row_height)

\* C21: _scroll_bottom_to_top is monotonic in the target row: for a buffer,
\* width and availableRows in which every line alone fits in availableRows,
\* targetRow1 <= targetRow2 implies
\* _scroll_bottom_to_top(targetRow1) <= _scroll_bottom_to_top(targetRow2),
\* and both calls return.
C21_MonotonicInTarget ==
    (scroll.called /\ EveryLineFits)
    => /\ scroll.ok
       /\ \A target1 \in 0..scroll.line_num :
             LET lowest1 == LowestTopFor(target1)
             IN  /\ lowest1.ok
                 /\ lowest1.top <= scroll.lowest_top
                 /\ target1 = scroll.line_num => lowest1.top = scroll.lowest_top

\* a call whose result is above line 0 and below its target, on lines of
\* different heights, with a lower target that gives a lower result
C21_Witness ==
    /\ scroll.called /\ scroll.ok /\ EveryLineFits
    /\ 0 < scroll.lowest_top /\ scroll.lowest_top < scroll.line_num
    /\ \E target1 \in 0..(scroll.line_num - 1) :
          LowestTopFor(target1).top < scroll.lowest_top
    /\ \E lines_above \in 1..scroll.line_num :
          RowsOfText(lines[lines_above], scroll.width)
             # RowsOfText(lines[scroll.line_num + 1], scroll.width)

-----------------------------------------------------------------------------
(* The buffer as a flat text, checked under SpecBuffer *)

\* the offset of the point (r, c) in '\n'.join(ls): the lines before row r
\* with one newline each, then c characters
RECURSIVE Offset(_, _, _)
Offset(ls, r, c) ==
    IF r = 0 THEN c ELSE Len(ls[1]) + 1 + Offset(Tail(ls), r - 1, c)

\* the flat text with the characters from offset start up to offset end
\* replaced by text
FlatReplace(flat, start, end, text) ==
    SubSeq(flat, 1, start) \o text \o SubSeq(flat, end + 1, Len(flat))

\* C22: the line list refines a flat text: joining Buffer(text).get_lines()
\* with newlines gives text back; after a successful set_text with start not
\* after end the newline-join of get_lines() is the flat text before the call
\* with the same replacement made at the offsets of the two points; and no
\* line of the buffer ever holds a newline.
C22_RefinesFlatText ==
    /\ \A n \in 1..Len(lines) : \A i \in 1..Len(lines[n]) : lines[n][i] # NL
    /\ call.op = "init" => join(get_lines(lines)) = call.text
    /\ OrderedCall
       => join(get_lines(lines))
             = FlatReplace(join(call.old),
                           Offset(call.old, call.row1, call.col1),
                           Offset(call.old, call.row2, call.col2), call.text)

\* a replacement from inside one line to inside a later one by a text with a
\* newline in it
C22_Witness ==
    /\ OrderedCall
    /\ call.row1 < call.row2 /\ call.col1 > 0
    /\ call.col2 < Len(call.old[call.row2 + 1])
    /\ call.text = <<97, NL, 98>>

\* a buffer made from a text that ends with a newline: its last line is empty
C22_WitnessTrailingNewline ==
    /\ call.op = "init" /\ Len(call.text) > 1
    /\ call.text[Len(call.text)] = NL
    /\ lines[Len(lines)] = <<>>

-----------------------------------------------------------------------------
(* SpecKeys: the loop of EditorGUI.main seen from the keyboard: a frame is   *)
(* drawn (only the fact is kept: the terminal is taken large enough for      *)
(* _draw_text to return), a key is read and handled, the position is         *)
(* clipped, and the loop tests _will_exit.  call holds the key and the       *)
(* fields of the editor before the handler ran.                              *)

\* stdscr.getch(): in normal mode the keys of Spec and escape, in insert mode
\* the keys of Spec and the tab
TypedKeys(m) ==
    IF m = "normal" THEN NormalKeys \cup {ESC} ELSE InsertKeys \cup {TAB}

ADrawnFrame == [drawn |-> TRUE]

InitKeys ==
    /\ \E text \in InitFiles : lines = BufferInit(text)
    /\ row = 0 /\ col = 0 /\ scroll_top = 0
    /\ mode = "normal" /\ will_exit = FALSE
    /\ pc = "loop" /\ err = ""
    /\ frame = NoFrame /\ call = NoCall /\ scroll = NoScroll

\* while not self._will_exit: self._draw()
LoopDraw ==
    /\ pc = "loop" /\ ~will_exit
    /\ frame' = ADrawnFrame
    /\ call' = NoCall
    /\ pc' = "getch"
    /\ UNCHANGED <<lines, row, col, scroll_top, mode, will_exit, err, scroll>>

\* char = getch(), the handler of the mode, the clipping; a ValueError ends
\* the program where the handler raised it
KeypressCall ==
    /\ pc = "getch"
    /\ \E char \in TypedKeys(mode) :
          LET g == IF mode = "normal" THEN handle_normal_keypress(Gui, char)
                   ELSE handle_insert_keypress(Gui, char)
              h == ClipPosition(g)
          IN  /\ g.raised \/ WithinEditBounds(g.lines)
              /\ call' = [op |-> "key", char |-> char, before |-> Gui,
                          raised |-> g.raised]
              /\ IF g.raised
                 THEN /\ pc' = "crashed" /\ err' = "ValueError"
                      /\ UNCHANGED <<lines, row, col, scroll_top, mode, will_exit>>
                 ELSE /\ lines' = h.lines /\ row' = h.row /\ col' = h.col
                      /\ scroll_top' = h.scroll_top
                      /\ mode' = h.mode /\ will_exit' = h.will_exit
                      /\ pc' = IF h.will_exit THEN "exited" ELSE "loop"
                      /\ err' = ""
    /\ frame' = NoFrame
    /\ UNCHANGED scroll

NextKeys == LoopDraw \/ KeypressCall

SpecKeys == InitKeys /\ [][NextKeys]_vars

-----------------------------------------------------------------------------
(* Properties of the key handlers, checked under SpecKeys *)

\* a key was handled: call holds it and the editor before it
KeyHandled == call.op = "key"

\* the key was read in insert mode with the cursor at a valid point
InsertAtValidPoint ==
    /\ KeyHandled /\ call.before.mode = "insert"
    /\ ValidPoint(call.before.lines, call.before.row, call.before.col)

\* ls with the line at index r (from 0) taken out
WithoutLine(ls, r) == SubSeq(ls, 1, r) \o SubSeq(ls, r + 2, Len(ls))

\* C23: in insert mode with the cursor at a valid position (row, col), a key
\* code c other than 27 and 127 inserts chr(c) at the cursor: if it is not a
\* newline, line[row] becomes line[row][0:col] + chr(c) + line[row][col:],
\* the line count and the other lines are unchanged and the cursor becomes
\* (row, col + 1); if it is a newline, line[row] is split into
\* line[row][0:col] and line[row][col:], the line count grows by one and the
\* cursor becomes (row + 1, 0).
C23_InsertCharacter ==
    (InsertAtValidPoint /\ call.char \notin {ESC, BACKSPACE})
    => LET old == call.before.lines
           r == call.before.row
           c == call.before.col
           line == old[r + 1]
           left == SubSeq(line, 1, c)
           right == SubSeq(line, c + 1, Len(line))
       IN  /\ ~call.raised /\ pc # "crashed"
           /\ mode = "insert"
           /\ IF call.char # NL
              THEN /\ Len(lines) = Len(old)
                   /\ lines[r + 1] = left \o <<call.char>> \o right
                   /\ \A n \in 1..Len(old) : n # r + 1 => lines[n] = old[n]
                   /\ row = r /\ col = c + 1
              ELSE /\ Len(lines) = Len(old) + 1
                   /\ lines[r + 1] = left /\ lines[r + 2] = right
                   /\ SubSeq(lines, 1, r) = SubSeq(old, 1, r)
                   /\ SubSeq(lines, r + 3, Len(lines))
                         = SubSeq(old, r + 2, Len(old))
                   /\ row = r + 1 /\ col = 0

\* a newline typed inside a line that is not the last: both halves are not
\* empty
C23_Witness ==
    /\ InsertAtValidPoint /\ call.char = NL
    /\ call.before.row < Len(call.before.lines) - 1
    /\ call.before.col > 0
    /\ call.before.col < Len(call.before.lines[call.before.row + 1])
    /\ row = call.before.row + 1 /\ col = 0

\* a tab typed between two characters of a line
C23_WitnessCharacter ==
    /\ InsertAtValidPoint /\ call.char = TAB
    /\ call.before.col > 0
    /\ call.before.col < Len(call.before.lines[call.before.row + 1])
    /\ col = call.before.col + 1

\* C24: in insert mode, backspace (127) with the cursor at (0, 0) changes
\* neither the buffer nor the cursor; at (r, 0), r > 0, it replaces lines
\* r - 1 and r by their concatenation, reduces the line count by one, leaves
\* every other line unchanged and moves the cursor to (r - 1, length of the
\* old line r - 1); with col > 0 on a valid position it removes the character
\* before the cursor and decrements col.
C24_Backspace ==
    (InsertAtValidPoint /\ call.char = BACKSPACE)
    => LET old == call.before.lines
           r == call.before.row
           c == call.before.col
       IN  /\ ~call.raised /\ pc # "crashed"
           /\ mode = "insert"
           /\ IF c = 0 /\ r = 0
              THEN lines = old /\ row = 0 /\ col = 0
              ELSE IF c = 0
              THEN /\ Len(lines) = Len(old) - 1
                   /\ lines[r] = old[r] \o old[r + 1]
                   /\ WithoutLine(lines, r - 1)
                         = WithoutLine(WithoutLine(old, r), r - 1)
                   /\ row = r - 1 /\ col = Len(old[r])
              ELSE /\ Len(lines) = Len(old)
                   /\ lines[r + 1] = SubSeq(old[r + 1], 1, c - 1)
                                     \o SubSeq(old[r + 1], c + 1, Len(old[r + 1]))
                   /\ WithoutLine(lines, r) = WithoutLine(old, r)
                   /\ row = r /\ col = c - 1

\* backspace at the start of a line, between two lines that are not empty,
\* with a line after them
C24_Witness ==
    /\ InsertAtValidPoint /\ call.char = BACKSPACE
    /\ call.before.row > 0 /\ call.before.col = 0
    /\ call.before.row < Len(call.before.lines) - 1
    /\ Len(call.before.lines[call.before.row]) > 0
    /\ Len(call.before.lines[call.before.row + 1]) > 0
    /\ row = call.before.row - 1 /\ col > 0

\* backspace at (0, 0) and backspace inside a line
C24_WitnessNoEffect ==
    /\ InsertAtValidPoint /\ call.char = BACKSPACE
    /\ call.before.row = 0 /\ call.before.col = 0
    /\ Len(lines) > 1 /\ lines = call.before.lines

C24_WitnessCharacter ==
    /\ InsertAtValidPoint /\ call.char = BACKSPACE
    /\ call.before.col > 0
    /\ call.before.col < Len(call.before.lines[call.before.row + 1])
    /\ col = call.before.col - 1

\* C25: in normal mode on row r, 'o' inserts one empty line at index r + 1
\* (lines 0..r unchanged, later lines shifted down by one) and leaves the
\* cursor at (r + 1, 0) in insert mode; 'O' inserts one empty line at index r
\* (the old line r moves to r + 1 unchanged) and leaves the cursor at (r, 0)
\* in insert mode; both increase the line count by one whatever the cursor
\* column.
C25_OpenLine ==
    (KeyHandled /\ call.before.mode = "normal" /\ call.char \in {111, 79})
    => LET old == call.before.lines
           r == call.before.row
           at == IF call.char = 111 THEN r + 1 ELSE r
       IN  /\ ~call.raised /\ pc # "crashed"
           /\ Len(lines) = Len(old) + 1
           /\ lines[at + 1] = <<>>
           /\ WithoutLine(lines, at) = old
           /\ row = at /\ col = 0
           /\ mode = "insert"

\* 'o' with the cursor inside a line that is not the last: the line is not
\* split, the line after it moves down
C25_Witness ==
    /\ KeyHandled /\ call.before.mode = "normal" /\ call.char = 111
    /\ call.before.row < Len(call.before.lines) - 1
    /\ Len(call.before.lines[call.before.row + 1]) > 1
    /\ call.before.col = 0
    /\ row = call.before.row + 1
    /\ lines[row + 2] = call.before.lines[row + 1]

\* 'O' with the cursor on the last character of a line below the first
C25_WitnessAbove ==
    /\ KeyHandled /\ call.before.mode = "normal" /\ call.char = 79
    /\ call.before.row > 0 /\ call.before.col > 0
    /\ row = call.before.row /\ lines[row + 1] = <<>>

\* the loop of main has ended: _will_exit was set, or an exception left it
LoopEnded == pc \in {"exited", "crashed"}

\* C26: mode is always 'normal' or 'insert'; it changes from normal to insert
\* only on 'i', 'a', 'o' or 'O' and from insert to normal only on key 27; the
\* main loop ends only after 'q' is received in normal mode - and then no
\* frame is drawn and no key is handled any more -; 'q' received in insert
\* mode is inserted into the buffer and does not end the loop.
C26_ModeAndExit ==
    /\ mode \in {"normal", "insert"}
    /\ (KeyHandled /\ call.before.mode = "normal" /\ mode = "insert")
       => call.char \in {105, 97, 111, 79}
    /\ (KeyHandled /\ call.before.mode = "insert" /\ mode = "normal")
       => call.char = ESC
    /\ LoopEnded
       => /\ KeyHandled /\ call.char = 113 /\ call.before.mode = "normal"
          /\ will_exit /\ frame = NoFrame
    /\ (KeyHandled /\ call.before.mode = "insert" /\ call.char = 113)
       => /\ ~LoopEnded /\ ~will_exit /\ mode = "insert"
          /\ TotalLen(lines) = TotalLen(call.before.lines) + 1

\* the same protocol for the keys whose handler returns: the loop ends without
\* 'q' only when set_text raises ValueError
C26_ModeAndExitUnlessRaised ==
    /\ mode \in {"normal", "insert"}
    /\ (KeyHandled /\ call.before.mode = "normal" /\ mode = "insert")
       => call.char \in {105, 97, 111, 79}
    /\ (KeyHandled /\ call.before.mode = "insert" /\ mode = "normal")
       => call.char = ESC
    /\ pc = "exited"
       => /\ KeyHandled /\ call.char = 113 /\ call.before.mode = "normal"
          /\ will_exit /\ frame = NoFrame
    /\ pc = "crashed" => KeyHandled /\ call.raised /\ err = "ValueError"
    /\ (KeyHandled /\ ~call.raised /\ call.before.mode = "insert"
        /\ call.char = 113)
       => /\ ~LoopEnded /\ ~will_exit /\ mode = "insert"
          /\ TotalLen(lines) = TotalLen(call.before.lines) + 1

\* once the loop has ended no frame is drawn and no key is handled
C26_NothingAfterTheLoop == [][~LoopEnded]_vars

\* the loop left by the ValueError of 'x' on an empty line
C26_EndedWithoutQuit ==
    /\ pc = "crashed" /\ KeyHandled /\ call.char = 120
    /\ call.before.mode = "normal" /\ ~will_exit

====
